---- MODULE Spec2Model ----
(***************************************************************************)
(* A model of the assessment pipeline of this repository:                  *)
(*   CWpreprocessing.py         CSVtoSQLite (load, clean, normalise, save)  *)
(*   underpreforming_student.py UnderperformingStudents.build_report        *)
(*   studentpreformance.py      StudentPerformance.analyse                  *)
(* Headers, canonical column names and table names are strings, handled     *)
(* character by character the way the regular expressions of the source     *)
(* handle them.  Numbers are exact rationals.                               *)
(***************************************************************************)
EXTENDS Integers, Sequences, FiniteSets, TLC

VARIABLES
    clean_counter,   \* CSVtoSQLite.clean_counter, the class attribute
    csv_path,        \* per instance: the file the instance was created for
    df,              \* per instance: self.df (NoDf before load_csv)
    current_prefix,  \* per instance: self.current_prefix
    max_map,         \* per instance: self.max_map
    attrs,           \* per instance: the dynamic attributes dftest_<n>, ...
    db,              \* CWDatabase.db: table name -> table
    last             \* what the last call did: its arguments and its result

vars == <<clean_counter, csv_path, df, current_prefix, max_map, attrs, db, last>>

----------------------------------------------------------------------------
(* Strings *)

Ch(s, i) == SubSeq(s, i, i)

UpperAlpha == "ABCDEFGHIJKLMNOPQRSTUVWXYZ"
LowerAlpha == "abcdefghijklmnopqrstuvwxyz"
DigitChars == {"0", "1", "2", "3", "4", "5", "6", "7", "8", "9"}
WhiteSpace == {" ", "\t", "\n", "\r", "\f"}

\* The characters table names are made of, in ASCII code order: the byte order
\* sqlite's ORDER BY name uses.
AsciiOrder ==
    " -./0123456789ABCDEFGHIJKLMNOPQRSTUVWXYZ_abcdefghijklmnopqrstuvwxyz"

UpperChars == {Ch(UpperAlpha, i) : i \in 1..26}
LowerChars == {Ch(LowerAlpha, i) : i \in 1..26}
LowerOf == [c \in UpperChars |-> Ch(LowerAlpha, CHOOSE i \in 1..26 : Ch(UpperAlpha, i) = c)]

IsDigit(c) == c \in DigitChars
IsSpace(c) == c \in WhiteSpace
IsUpper(c) == c \in UpperChars
IsLower(c) == c \in LowerChars
IsAlnum(c) == IsDigit(c) \/ IsUpper(c) \/ IsLower(c)

ToLowerCh(c) == IF IsUpper(c) THEN LowerOf[c] ELSE c

RECURSIVE StrLower(_)
StrLower(s) == IF s = "" THEN "" ELSE ToLowerCh(Head(s)) \o StrLower(Tail(s))

\* re.sub(r"[^A-Za-z0-9]", "", s)
RECURSIVE KeepAlnum(_)
KeepAlnum(s) ==
    IF s = "" THEN ""
    ELSE (IF IsAlnum(Head(s)) THEN Head(s) ELSE "") \o KeepAlnum(Tail(s))

\* re.sub(r"[^a-z0-9]", "", s)
RECURSIVE KeepLowerAlnum(_)
KeepLowerAlnum(s) ==
    IF s = "" THEN ""
    ELSE (IF IsDigit(Head(s)) \/ IsLower(Head(s)) THEN Head(s) ELSE "")
             \o KeepLowerAlnum(Tail(s))

\* re.sub(r"[ /?\-]", "", s)
RECURSIVE DropSeparators(_)
DropSeparators(s) ==
    IF s = "" THEN ""
    ELSE (IF Head(s) \in {" ", "/", "?", "-"} THEN "" ELSE Head(s))
             \o DropSeparators(Tail(s))

\* s.replace(" ", "").replace("_", "").replace("-", "")
RECURSIVE DropSpaceUnderscoreDash(_)
DropSpaceUnderscoreDash(s) ==
    IF s = "" THEN ""
    ELSE (IF Head(s) \in {" ", "_", "-"} THEN "" ELSE Head(s))
             \o DropSpaceUnderscoreDash(Tail(s))

RECURSIVE LStrip(_)
LStrip(s) == IF s # "" /\ IsSpace(Head(s)) THEN LStrip(Tail(s)) ELSE s

RECURSIVE RStrip(_)
RStrip(s) ==
    IF s # "" /\ IsSpace(Ch(s, Len(s))) THEN RStrip(SubSeq(s, 1, Len(s) - 1)) ELSE s

\* str.strip()
Strip(s) == RStrip(LStrip(s))

StartsWith(s, p) == Len(s) >= Len(p) /\ SubSeq(s, 1, Len(p)) = p
EndsWith(s, p) == Len(s) >= Len(p) /\ SubSeq(s, Len(s) - Len(p) + 1, Len(s)) = p

\* p in s
Contains(s, p) == \E i \in 1..(Len(s) - Len(p) + 1) : SubSeq(s, i, i + Len(p) - 1) = p

\* The first position at or after i that holds no white space (\s*, greedy).
RECURSIVE SkipWs(_, _)
SkipWs(s, i) == IF i <= Len(s) /\ IsSpace(Ch(s, i)) THEN SkipWs(s, i + 1) ELSE i

\* The first position at or after i that holds no digit (\d+ matches iff it is > i).
RECURSIVE DigitsEnd(_, _)
DigitsEnd(s, i) == IF i <= Len(s) /\ IsDigit(Ch(s, i)) THEN DigitsEnd(s, i + 1) ELSE i

AllDigits(s) == s # "" /\ DigitsEnd(s, 1) = Len(s) + 1

DigitValueOf == [c \in DigitChars |-> CHOOSE v \in 0..9 : ToString(v) = c]
DigitValue(c) == DigitValueOf[c]

\* int("0042") = 42
RECURSIVE ParseInt(_)
ParseInt(s) ==
    IF s = "" THEN 0
    ELSE 10 * ParseInt(SubSeq(s, 1, Len(s) - 1)) + DigitValue(Ch(s, Len(s)))

OrdOf ==
    [c \in {Ch(AsciiOrder, i) : i \in 1..Len(AsciiOrder)} |->
        CHOOSE i \in 1..Len(AsciiOrder) : Ch(AsciiOrder, i) = c]
Ord(c) == OrdOf[c]

\* s < t in byte order
RECURSIVE StrLess(_, _)
StrLess(s, t) ==
    IF t = "" THEN FALSE
    ELSE IF s = "" THEN TRUE
    ELSE IF Head(s) = Head(t) THEN StrLess(Tail(s), Tail(t))
    ELSE Ord(Head(s)) < Ord(Head(t))

----------------------------------------------------------------------------
(* Header classification: CSVtoSQLite.standardize_columns *)

\* ^Q\s*(\d+)(?:\s*/\s*(\d+))?.*$ with re.IGNORECASE, on the stripped header
QHeaderMatch(raw) ==
    LET d1 == SkipWs(raw, 2)
        e1 == DigitsEnd(raw, d1)
        sl == SkipWs(raw, e1)
        d2 == SkipWs(raw, sl + 1)
        e2 == DigitsEnd(raw, d2)
        ok == raw # "" /\ ToLowerCh(Head(raw)) = "q" /\ e1 > d1
        hasDenom == ok /\ sl <= Len(raw) /\ Ch(raw, sl) = "/" /\ e2 > d2
    IN  [matched |-> ok,
         number |-> IF ok THEN ParseInt(SubSeq(raw, d1, e1 - 1)) ELSE 0,
         hasDenom |-> hasDenom,
         denom |-> IF hasDenom THEN ParseInt(SubSeq(raw, d2, e2 - 1)) ELSE 0]

\* ^Grades?\s*/\s*(\d+).*$ with re.IGNORECASE, on the stripped header
GradeHeaderMatch(raw) ==
    LET low == StrLower(raw)
        g == IF StartsWith(low, "grades") THEN 7 ELSE 6
        sl == SkipWs(raw, g)
        d == SkipWs(raw, sl + 1)
        e == DigitsEnd(raw, d)
        ok == StartsWith(low, "grade") /\ sl <= Len(raw) /\ Ch(raw, sl) = "/" /\ e > d
    IN  [matched |-> ok, denom |-> IF ok THEN ParseInt(SubSeq(raw, d, e - 1)) ELSE 0]

TimeTakenKeys == {"timetaken", "timetakenminutes", "timetakenmins", "timetakenmin"}

\* One pass of the loop body up to the collision check: the canonical name of a
\* header and the denominator its text declares.
ClassifyMatched(raw, compact, q, g) ==
    IF compact = "state" THEN [name |-> "state", hasDenom |-> FALSE, denom |-> 0]
    ELSE IF compact \in TimeTakenKeys
        THEN [name |-> "timetaken", hasDenom |-> FALSE, denom |-> 0]
    ELSE IF q.matched
        THEN [name |-> "Q" \o ToString(q.number), hasDenom |-> q.hasDenom,
              denom |-> q.denom]
    ELSE IF g.matched THEN [name |-> "score", hasDenom |-> TRUE, denom |-> g.denom]
    ELSE [name |-> DropSeparators(raw), hasDenom |-> FALSE, denom |-> 0]

\* raw = str(col).strip(); compact; the two regular expressions
ClassifyStripped(raw) ==
    ClassifyMatched(raw, StrLower(KeepAlnum(raw)), QHeaderMatch(raw), GradeHeaderMatch(raw))

ClassifyHeader(col) == ClassifyStripped(Strip(col))

\* dict[key] = value
DictSet(d, key, value) ==
    [k \in (DOMAIN d) \cup {key} |-> IF k = key THEN value ELSE d[k]]

EmptyDict == <<>>

\* The loop over df.columns, with its seen counts, new_cols and max_map.
RECURSIVE StandardizeLoop(_, _, _, _, _)

\* The collision check and the bookkeeping for the header classified as c
StandardizeStep(cols, k, seen, new_cols, mm, c) ==
    LET collides == c.name \in DOMAIN seen
        count == IF collides THEN seen[c.name] + 1 ELSE 1
        name == IF collides THEN c.name \o "_" \o ToString(count) ELSE c.name
    IN  StandardizeLoop(cols, k + 1, DictSet(seen, c.name, count),
                        Append(new_cols, name),
                        IF c.hasDenom THEN DictSet(mm, name, c.denom) ELSE mm)

StandardizeLoop(cols, k, seen, new_cols, mm) ==
    IF k > Len(cols) THEN [columns |-> new_cols, max_map |-> mm]
    ELSE StandardizeStep(cols, k, seen, new_cols, mm, ClassifyHeader(cols[k]))

\* standardize_columns(df): the renamed columns and the max_map it rebuilds
standardize_columns(cols) == StandardizeLoop(cols, 1, EmptyDict, <<>>, EmptyDict)

----------------------------------------------------------------------------
(* Numbers and cells.  A cell is a number (an exact rational n/d, d > 0, in  *)
(* lowest terms), the missing value NaN, or a text.                         *)

Abs(x) == IF x < 0 THEN -x ELSE x

RECURSIVE Gcd(_, _)
Gcd(a, b) == IF b = 0 THEN a ELSE Gcd(b, a % b)

Rat(n, d) ==
    LET g == Gcd(Abs(n), d) IN [t |-> "num", n |-> n \div g, d |-> d \div g]

Num(k) == [t |-> "num", n |-> k, d |-> 1]
NaN == [t |-> "nan"]
Txt(s) == [t |-> "str", s |-> s]

IsNum(c) == c.t = "num"
IsNaN(c) == c.t = "nan"
IsTxt(c) == c.t = "str"

RAdd(a, b) == Rat(a.n * b.d + b.n * a.d, a.d * b.d)
RSub(a, b) == Rat(a.n * b.d - b.n * a.d, a.d * b.d)
RMul(a, b) == Rat(a.n * b.n, a.d * b.d)
\* a / b for b > 0
RDiv(a, b) == Rat(a.n * b.d, a.d * b.n)
RLess(a, b) == a.n * b.d < b.n * a.d
RLeq(a, b) == a.n * b.d <= b.n * a.d
IsInteger(a) == a.d = 1

\* Comparisons with NaN are False, as in Python.
Less(a, b) == IsNum(a) /\ IsNum(b) /\ RLess(a, b)
Greater(a, b) == Less(b, a)

RECURSIVE SumCells(_)
SumCells(cells) ==
    IF cells = <<>> THEN Num(0) ELSE RAdd(Head(cells), SumCells(Tail(cells)))

\* Series.max(): the largest number, NaN skipped; NaN when there is none.
SeriesMax(cells) ==
    LET nums == {k \in 1..Len(cells) : IsNum(cells[k])}
    IN  IF nums = {} THEN NaN
        ELSE cells[CHOOSE k \in nums : \A j \in nums : RLeq(cells[j], cells[k])]

----------------------------------------------------------------------------
(* Tables (DataFrames): column labels, column dtypes, and rows of cells.     *)

Table(columns, dtypes, rows) == [columns |-> columns, dtypes |-> dtypes, rows |-> rows]

NoDf == [none |-> TRUE]

\* Positions of the sequence s whose element satisfies Keep, in order.
RECURSIVE SelectIdx(_, _, _)
SelectIdx(n, k, keep) ==
    IF k > n THEN <<>>
    ELSE (IF k \in keep THEN <<k>> ELSE <<>>) \o SelectIdx(n, k + 1, keep)

\* The subsequence of s at the positions in keep.
PickAt(s, idx) == [j \in 1..Len(idx) |-> s[idx[j]]]
Pick(s, keep) == PickAt(s, SelectIdx(Len(s), 1, keep))

Column(t, c) == [r \in 1..Len(t.rows) |-> t.rows[r][c]]

\* The position of the column labelled name (labels that are looked up are unique).
ColIndex(t, name) == CHOOSE c \in 1..Len(t.columns) : t.columns[c] = name

HasColumn(t, name) == \E c \in 1..Len(t.columns) : t.columns[c] = name

KeepColumns(t, keep) ==
    Table(Pick(t.columns, keep), Pick(t.dtypes, keep),
          [r \in 1..Len(t.rows) |-> Pick(t.rows[r], keep)])

\* df.drop(columns=name)
DropColumn(t, name) ==
    KeepColumns(t, {c \in 1..Len(t.columns) : t.columns[c] # name})

\* df.fillna(0)
FillNa0(t) ==
    [t EXCEPT !.rows = [r \in 1..Len(t.rows) |->
        [c \in 1..Len(t.columns) |-> IF IsNaN(t.rows[r][c]) THEN Num(0) ELSE t.rows[r][c]]]]

\* df.dropna(how="all")
DropNaAll(t) ==
    [t EXCEPT !.rows = Pick(t.rows,
        {r \in 1..Len(t.rows) : \E c \in 1..Len(t.columns) : ~IsNaN(t.rows[r][c])})]

\* A sort that leaves the keys non-decreasing (ascending=False dropped)
DescOrdersAscending(keys) ==
    {p \in [1..Len(keys) -> 1..Len(keys)] :
        /\ \A a, b \in 1..Len(keys) : a # b => p[a] # p[b]
        /\ \A a \in 1..(Len(keys) - 1) : RLeq(keys[p[a]], keys[p[a + 1]])}

\* The orders in which a sort by key, descending, may leave n rows: every
\* permutation with the keys non-increasing (the default sort kind, quicksort,
\* is not stable, so rows with equal keys may come out in any order).
DescOrders(keys) ==
    LET n == Len(keys)
    IN  {p \in [1..n -> 1..n] :
            /\ \A a, b \in 1..n : a # b => p[a] # p[b]
            /\ \A a \in 1..(n - 1) : RLeq(keys[p[a + 1]], keys[p[a]])}

\* The same, ascending.
AscOrders(keys) ==
    LET n == Len(keys)
    IN  {p \in [1..n -> 1..n] :
            /\ \A a, b \in 1..n : a # b => p[a] # p[b]
            /\ \A a \in 1..(n - 1) : RLeq(keys[p[a]], keys[p[a + 1]])}

\* The stable order among them: equal keys keep their original order.
StableDescOrder(keys) ==
    CHOOSE p \in DescOrders(keys) :
        \A a, b \in 1..Len(keys) : (a < b /\ keys[p[a]] = keys[p[b]]) => p[a] < p[b]

\* drop_duplicates(subset, keep="first") on rows taken in the order p: the
\* positions of p whose key did not occur at an earlier position.
FirstOccurrences(ids, p) ==
    {a \in 1..Len(p) : \A b \in 1..(a - 1) : ids[p[b]] # ids[p[a]]}

\* df.sort_values(key, ascending=False).drop_duplicates(id) for the order p
SortDropDuplicates(t, ids, p) ==
    LET sorted == [a \in 1..Len(p) |-> t.rows[p[a]]]
    IN  [t EXCEPT !.rows = Pick(sorted, FirstOccurrences(ids, p))]

\* The dtype pandas infers for a column of parsed cells.
InferDtype(cells) ==
    IF Len(cells) = 0 \/ \E k \in 1..Len(cells) : IsTxt(cells[k]) THEN "object"
    ELSE IF \A k \in 1..Len(cells) : IsNum(cells[k]) /\ IsInteger(cells[k]) THEN "int64"
    ELSE "float64"

\* pd.read_csv: a header row and rows of cells, each column with its inferred dtype
ReadCsv(headers, rows) ==
    Table(headers,
          [c \in 1..Len(headers) |-> InferDtype([r \in 1..Len(rows) |-> rows[r][c]])],
          rows)

----------------------------------------------------------------------------
(* UnderperformingStudents.detect_id_col *)

IdKeywords ==
    {"studentid", "student", "researchid", "research", "candidateid", "candidate", "id"}

\* Some keyword occurs in re.sub(r"[^a-z0-9]", "", str(col).lower())
IsIdLike(col) == \E key \in IdKeywords : Contains(KeepLowerAlnum(StrLower(col)), key)

HasIdCol(columns) == \E c \in 1..Len(columns) : IsIdLike(columns[c])

\* The first column, in column order, that holds a keyword (ValueError when none does)
detect_id_col(columns) ==
    columns[CHOOSE c \in 1..Len(columns) :
                IsIdLike(columns[c]) /\ \A b \in 1..(c - 1) : ~IsIdLike(columns[b])]

----------------------------------------------------------------------------
(* CSVtoSQLite.normalize_scores *)

\* re.match(r"^Q\d+$", col) or re.match(r"^Grades\d+$", col) or col == "score"
IsScoreColumn(col) ==
    \/ StartsWith(col, "Q") /\ AllDigits(SubSeq(col, 2, Len(col)))
    \/ StartsWith(col, "Grades") /\ AllDigits(SubSeq(col, 7, Len(col)))
    \/ col = "score"

\* pd.to_numeric(x, errors="coerce") of one cell
ToNumeric(c) ==
    IF IsTxt(c) THEN (IF AllDigits(c.s) THEN Num(ParseInt(c.s)) ELSE NaN) ELSE c

\* pd.to_numeric(series, errors="coerce").fillna(0)
NumericFill0(cells) ==
    [k \in 1..Len(cells) |->
        LET v == ToNumeric(cells[k]) IN IF IsNaN(v) THEN Num(0) ELSE v]

\* The divisor of a column: the header's declared maximum, else the observed one.
MaxPossible(cells, col, mm) ==
    IF col \in DOMAIN mm THEN Num(mm[col]) ELSE SeriesMax(NumericFill0(cells))

\* The loop body: one score column, rescaled
Rescale(s, max_possible) ==
    IF Greater(max_possible, Num(0))
    THEN [k \in 1..Len(s) |-> RMul(RDiv(s[k], max_possible), Num(100))]
    ELSE [k \in 1..Len(s) |-> Num(0)]

NormalizeColumn(cells, col, mm) ==
    Rescale(NumericFill0(cells), MaxPossible(cells, col, mm))

NormalizedDtype(cells, col, mm) ==
    IF Greater(MaxPossible(cells, col, mm), Num(0)) THEN "float64" ELSE "int64"

\* normalize_scores(df) with self.max_map = mm
normalize_scores(t, mm) ==
    LET norm == [c \in 1..Len(t.columns) |->
                    IF IsScoreColumn(t.columns[c])
                    THEN NormalizeColumn(Column(t, c), t.columns[c], mm)
                    ELSE Column(t, c)]
    IN  Table(t.columns,
              [c \in 1..Len(t.columns) |->
                    IF IsScoreColumn(t.columns[c])
                    THEN NormalizedDtype(Column(t, c), t.columns[c], mm)
                    ELSE t.dtypes[c]],
              [r \in 1..Len(t.rows) |-> [c \in 1..Len(t.columns) |-> norm[c][r]]])

----------------------------------------------------------------------------
(* CSVtoSQLite.clean_dataframe: the steps between the raw and the formatted   *)
(* snapshot                                                                 *)

\* c.startswith("Q") or c.startswith("Grades") or c == "score"
IsDedupScoreColumn(col) ==
    StartsWith(col, "Q") \/ StartsWith(col, "Grades") \/ col = "score"

\* df[labels]: for each label of the list, every column that carries it
RECURSIVE LabelSelect(_, _)
LabelSelect(columns, labels) ==
    IF labels = <<>> THEN <<>>
    ELSE SelectIdx(Len(columns), 1,
                   {c \in 1..Len(columns) : columns[c] = Head(labels)})
             \o LabelSelect(columns, Tail(labels))

\* score_cols of clean_dataframe, as labels
DedupScoreCols(t) ==
    Pick(t.columns, {c \in 1..Len(t.columns) : IsDedupScoreColumn(t.columns[c])})

\* df[score_cols].sum(axis=1)
RowSums(t, sel) ==
    [r \in 1..Len(t.rows) |-> SumCells(PickAt(t.rows[r], sel))]

TotalScore(t) == RowSums(t, LabelSelect(t.columns, DedupScoreCols(t)))

\* Steps 159-170: rename, fillna(0), dropna(how="all"), drop state and timetaken
\* if name in df.columns: df = df.drop(columns=name)
DropIfPresent(t, name) == IF HasColumn(t, name) THEN DropColumn(t, name) ELSE t

\* Lines 162-170 on the renamed frame
PrepareRenamed(t) ==
    DropIfPresent(DropIfPresent(DropNaAll(FillNa0(t)), "state"), "timetaken")

Prepare(t) == PrepareRenamed([t EXCEPT !.columns = standardize_columns(t.columns).columns])

\* Whether lines 173-185 deduplicate
Deduplicates(t) == HasColumn(t, "student_id") /\ DedupScoreCols(t) # <<>>

\* The orders the sort of line 182 may produce (the identity when nothing is sorted)
DedupOrders(t) ==
    IF Deduplicates(t) THEN DescOrders(TotalScore(t))
    ELSE {[a \in 1..Len(t.rows) |-> a]}

\* Lines 173-185 for the sort order p: the highest total per student_id first
KeepHighest(t, p) ==
    IF Deduplicates(t)
    THEN SortDropDuplicates(t, Column(t, ColIndex(t, "student_id")), p)
    ELSE t

----------------------------------------------------------------------------
(* Bounds and inputs of the pipeline *)

\* clean_dataframe runs that succeed, over all instances
MaxRuns == 2
\* Rows of a generated input frame
MaxRows == 2
\* normalize_scores is not called from outside on a frame that holds a value above this
MaxValue == 100

\* Two CSVtoSQLite instances
Instances == {"a", "b"}

\* The sample frame of test_suite.py (setUp)
SuiteFrame ==
    ReadCsv(<<"student_id", "score", "Q1 /100", "Grades/600", "time-taken", "state">>,
            << <<Num(1), Num(50), Num(10), Num(20), Num(5), Txt("Finished")>>,
               <<Num(2), Num(70), Num(15), Num(25), Num(6), Txt("Finished")>>,
               <<Num(3), Num(90), NaN, Num(30), Num(4), Txt("Finished")>>,
               <<Num(3), Num(80), Num(20), Num(35), NaN, Txt("Finished")>> >>)

\* A quiz export with declared maxima, a repeated student and an empty line
QuizFrame ==
    ReadCsv(<<"student_id", "Q 1 /10", "Q2/5", "State">>,
            << <<Num(7), Num(4), Num(5), Txt("Finished")>>,
               <<NaN, NaN, NaN, NaN>>,
               <<Num(7), Num(8), Num(1), Txt("Finished")>> >>)

\* The files on disk: path -> content
CsvFiles == ("data/final_exam.csv" :> QuizFrame)

\* The paths instances are created with: the files, and one that does not exist
CsvPaths == (DOMAIN CsvFiles) \cup {"missing.csv"}

\* All rows whose cell in column c is drawn from domains[c]
RECURSIVE RowsOver(_)
RowsOver(domains) ==
    IF domains = <<>> THEN {<<>>}
    ELSE {<<x>> \o rest : x \in Head(domains), rest \in RowsOver(Tail(domains))}

\* The frames read from a file with these headers and at most MaxRows such rows
FramesOver(headers, domains) ==
    {ReadCsv(headers, rows) :
        rows \in UNION {[1..n -> RowsOver(domains)] : n \in 0..MaxRows}}

\* Input frames of clean_dataframe.  Columns whose canonical name starts with Q
\* or Grades, or is score, hold numbers or nothing (a text there makes the sum
\* of line 180 depend on the pandas version).
CleanInputs ==
    {SuiteFrame}
    \cup FramesOver(<<"student_id", "Q1/10", "Q2">>,
                    <<{Num(1), Num(2)}, {Num(5), Num(20)}, {Num(0), Num(4)}>>)
    \cup FramesOver(<<"student_id", "Q 1 /0">>,
                    <<{Num(0), NaN}, {Num(3), NaN}>>)
    \cup FramesOver(<<"student_id", "Name">>,
                    <<{Num(1), Num(2)}, {Txt("ann"), Txt("bob")}>>)
    \cup FramesOver(<<"Research ID", "Grade/20">>,
                    <<{Num(1)}, {Num(-5), Num(10), Num(30)}>>)
    \cup FramesOver(<<"student_id", "score", "Grades/600">>,
                    <<{Num(1)}, {Num(0), Num(80)}, {Num(300), Num(600)}>>)
    \cup FramesOver(<<"Research ID", "Name", "Name ", "Name_2">>,
                    <<{Num(1)}, {Txt("ann")}, {Txt("bob")}, {Txt("ann"), Txt("bob")}>>)

\* The end of the last "/" of a path (0 when it has none)
RECURSIVE LastIndexOf(_, _, _)
LastIndexOf(s, c, k) ==
    IF k = 0 THEN 0 ELSE IF Ch(s, k) = c THEN k ELSE LastIndexOf(s, c, k - 1)

\* Path(p).stem: the final component without its last suffix
Stem(path) ==
    LET name == SubSeq(path, LastIndexOf(path, "/", Len(path)) + 1, Len(path))
        dot == LastIndexOf(name, ".", Len(name))
    IN  IF dot > 1 THEN SubSeq(name, 1, dot - 1) ELSE name

----------------------------------------------------------------------------
(* Values as text, and tables as SQLite keeps them *)

\* str(x) of a number: of a float when asFloat, else of an int.  (Identities
\* are integral; of a non-integral float only its difference from the integral
\* ones matters, and it is written as a fraction.)
PyStrNum(c, asFloat) ==
    IF ~asFloat THEN ToString(c.n)
    ELSE IF c.d = 1 THEN ToString(c.n) \o ".0"
    ELSE ToString(c.n) \o "/" \o ToString(c.d)

\* str(x) of a cell of a column of dtype coldtype, read through a Series of
\* dtype seriesdtype (the column itself, or a row of iterrows)
PyStr(c, coldtype, seriesdtype) ==
    IF IsTxt(c) THEN c.s
    ELSE IF IsNaN(c) THEN (IF coldtype = "object" THEN "None" ELSE "nan")
    ELSE PyStrNum(c, coldtype = "float64" \/ seriesdtype = "float64")

\* The dtype of the Series iterrows builds from a row: the common dtype of the
\* columns
RowDtype(dtypes) ==
    IF \E c \in 1..Len(dtypes) : dtypes[c] = "object" THEN "object"
    ELSE IF \E c \in 1..Len(dtypes) : dtypes[c] = "float64" THEN "float64"
    ELSE "int64"

\* A column as to_sql writes it and read_sql reads it back: a text column keeps
\* its numbers as text, an object column without text gets the dtype of its
\* values
StoredColumn(cells, dtype) ==
    IF dtype = "object" /\ \E k \in 1..Len(cells) : IsTxt(cells[k])
    THEN [k \in 1..Len(cells) |->
            IF IsNum(cells[k]) THEN Txt(PyStrNum(cells[k], ~IsInteger(cells[k])))
            ELSE cells[k]]
    ELSE cells

StoredDtype(cells, dtype) ==
    IF dtype = "object" THEN InferDtype(cells)
    ELSE IF dtype = "int64" /\ \E k \in 1..Len(cells) : IsNaN(cells[k]) THEN "float64"
    ELSE dtype

\* pd.read_sql("SELECT * FROM name") of what df.to_sql(name, index=False) wrote
SqlStored(t) ==
    Table(t.columns,
          [c \in 1..Len(t.columns) |-> StoredDtype(Column(t, c), t.dtypes[c])],
          [r \in 1..Len(t.rows) |->
              [c \in 1..Len(t.columns) |-> StoredColumn(Column(t, c), t.dtypes[c])[r]]])

----------------------------------------------------------------------------
(* CSVtoSQLite: the state after construction and the methods *)

NoPrefix == "None"

Ok(op, i) == [op |-> op, inst |-> i, raised |-> "none"]
Raised(op, i, exc) == [op |-> op, inst |-> i, raised |-> exc]

\* __init__ for every instance, the class attribute at its initial value, an
\* empty database
InitPipeline ==
    /\ clean_counter = 0
    /\ csv_path \in [Instances -> CsvPaths]
    /\ df = [i \in Instances |-> NoDf]
    /\ current_prefix = [i \in Instances |-> NoPrefix]
    /\ max_map = [i \in Instances |-> EmptyDict]
    /\ attrs = [i \in Instances |-> EmptyDict]
    /\ db = EmptyDict
    /\ last = [op |-> "init", inst |-> "", raised |-> "none"]

load_csv(i) ==
    IF csv_path[i] \notin DOMAIN CsvFiles
    THEN /\ last' = Raised("load_csv", i, "FileNotFoundError")
         /\ UNCHANGED <<clean_counter, csv_path, df, current_prefix, max_map, attrs, db>>
    ELSE /\ df' = [df EXCEPT ![i] = CsvFiles[csv_path[i]]]
         /\ current_prefix' = [current_prefix EXCEPT ![i] = Stem(csv_path[i])]
         /\ last' = Ok("load_csv", i)
         /\ UNCHANGED <<clean_counter, csv_path, max_map, attrs, db>>

\* The guard placed after the counter update
CleanRaisesCounted(i) ==
    /\ df[i] = NoDf
    /\ clean_counter' = clean_counter + 1
    /\ last' = Raised("clean_dataframe", i, "ValueError")
    /\ UNCHANGED <<csv_path, df, current_prefix, max_map, attrs, db>>

\* Lines 147-148: no frame loaded
CleanRaises(i) ==
    /\ df[i] = NoDf
    /\ last' = Raised("clean_dataframe", i, "ValueError")
    /\ UNCHANGED <<clean_counter, csv_path, df, current_prefix, max_map, attrs, db>>

\* The run number line 150-151 gives the run
NextTestNum == clean_counter + 1

\* The cleaned snapshot taken without .copy(): it is the frame normalize_scores
\* then rescales in place
SnapshotsShared(a, test_num, raw, cleaned, formatted) ==
    [k \in (DOMAIN a) \cup {"dftest_" \o ToString(test_num),
                            "dfCleanTest_" \o ToString(test_num),
                            "dfFormattedCleanTest_" \o ToString(test_num)} |->
        IF k = "dftest_" \o ToString(test_num) THEN raw
        ELSE IF k \in {"dfCleanTest_" \o ToString(test_num),
                       "dfFormattedCleanTest_" \o ToString(test_num)} THEN formatted
        ELSE a[k]]

\* The three attributes lines 154, 188 and 194 set
Snapshots(a, test_num, raw, cleaned, formatted) ==
    DictSet(DictSet(DictSet(a,
        "dftest_" \o ToString(test_num), raw),
        "dfCleanTest_" \o ToString(test_num), cleaned),
        "dfFormattedCleanTest_" \o ToString(test_num), formatted)

\* Lines 150-197
\* Lines 188-196: the snapshots are stored and self.df becomes the formatted frame
CleanStores(i, test_num, mm, cleaned, formatted) ==
    /\ clean_counter' = test_num
    /\ max_map' = [max_map EXCEPT ![i] = mm]
    /\ attrs' = [attrs EXCEPT ![i] = Snapshots(@, test_num, df[i], cleaned, formatted)]
    /\ df' = [df EXCEPT ![i] = formatted]
    /\ last' = [op |-> "clean_dataframe", inst |-> i, raised |-> "none",
                test_num |-> test_num]

\* Line 191
CleanNormalizes(i, test_num, mm, cleaned) ==
    CleanStores(i, test_num, mm, cleaned, normalize_scores(cleaned, mm))

\* Lines 173-185
CleanDeduplicates(i, test_num, mm, prepared) ==
    \E p \in DedupOrders(prepared) :
        CleanNormalizes(i, test_num, mm, KeepHighest(prepared, p))

\* Lines 159-170
CleanPrepares(i, test_num, std) ==
    CleanDeduplicates(i, test_num, std.max_map,
                      PrepareRenamed([df[i] EXCEPT !.columns = std.columns]))

\* Lines 150-197
CleanRuns(i) ==
    /\ df[i] # NoDf
    /\ clean_counter < MaxRuns
    /\ CleanPrepares(i, NextTestNum, standardize_columns(df[i].columns))
    /\ UNCHANGED <<csv_path, current_prefix, db>>

clean_dataframe(i) == CleanRaises(i) \/ CleanRuns(i)

\* Every number of a frame is at most MaxValue
WithinMaxValue(t) ==
    \A r \in 1..Len(t.rows) : \A c \in 1..Len(t.columns) :
        IsNum(t.rows[r][c]) => RLeq(t.rows[r][c], Num(MaxValue))

\* normalize_scores(self.df), called from outside: rescales self.df in place
\* (df.columns of None is an AttributeError)
NormalizeScoresCall(i) ==
    \/ /\ df[i] = NoDf
       /\ last' = Raised("normalize_scores", i, "AttributeError")
       /\ UNCHANGED <<clean_counter, csv_path, df, current_prefix, max_map, attrs, db>>
    \/ /\ df[i] # NoDf
       /\ WithinMaxValue(df[i])
       /\ df' = [df EXCEPT ![i] = normalize_scores(@, max_map[i])]
       /\ last' = Ok("normalize_scores", i)
       /\ UNCHANGED <<clean_counter, csv_path, current_prefix, max_map, attrs, db>>

\* sorted(names): the names of a set in byte order
RECURSIVE SortedNames(_)
SortedNames(names) ==
    IF names = {} THEN <<>>
    ELSE LET m == CHOOSE x \in names : \A y \in names : y = x \/ StrLess(x, y)
         IN  <<m>> \o SortedNames(names \ {m})

\* df.to_sql(name, conn, if_exists="replace"): a table of that name is replaced
ToSql(store, name, t) == DictSet(store, name, SqlStored(t))

RECURSIVE SaveAll(_, _, _, _)
SaveAll(store, prefix, a, names) ==
    IF names = <<>> THEN store
    ELSE SaveAll(ToSql(store, prefix \o "_" \o Head(names), a[Head(names)]),
                 prefix, a, Tail(names))

\* The attributes dir(self) lists that start with one of the three prefixes
SnapshotAttrs(a) ==
    {x \in DOMAIN a : \/ StartsWith(x, "dftest_")
                      \/ StartsWith(x, "dfCleanTest_")
                      \/ StartsWith(x, "dfFormattedCleanTest_")}

save_to_sqlite(i) ==
    /\ db' = SaveAll(db, current_prefix[i], attrs[i], SortedNames(SnapshotAttrs(attrs[i])))
    /\ last' = Ok("save_to_sqlite", i)
    /\ UNCHANGED <<clean_counter, csv_path, df, current_prefix, max_map, attrs>>

NextPipeline ==
    \E i \in Instances :
        \/ load_csv(i)
        \/ clean_dataframe(i)
        \/ NormalizeScoresCall(i)
        \/ save_to_sqlite(i)

\* The pipeline: instances load, clean, rescale and save in any order
Init == InitPipeline
Next == NextPipeline
Spec == Init /\ [][Next]_vars

\* clean_dataframe on frames set directly, as test_suite.py does (setUp): instance
\* "a" holds any input frame, instance "b" none
InitClean ==
    /\ clean_counter = 0
    /\ csv_path = [i \in Instances |-> "dummy.csv"]
    /\ \E frame \in CleanInputs : df = [i \in Instances |-> IF i = "a" THEN frame ELSE NoDf]
    /\ current_prefix = [i \in Instances |-> NoPrefix]
    /\ max_map = [i \in Instances |-> EmptyDict]
    /\ attrs = [i \in Instances |-> EmptyDict]
    /\ db = EmptyDict
    /\ last = [op |-> "init", inst |-> "", raised |-> "none"]

NextClean == \E i \in Instances : clean_dataframe(i)

SpecClean == InitClean /\ [][NextClean]_vars

----------------------------------------------------------------------------
(* UnderperformingStudents *)

\* None, where a table name is expected (load_table formats it into the query)
NoneName == "None"

FormattedMarker == "_dfFormattedCleanTest_"

\* The orders in which the names of a store may be listed
Orders(names) ==
    {p \in [1..Cardinality(names) -> names] :
        \A a, b \in 1..Cardinality(names) : a # b => p[a] # p[b]}

\* list_tables(): the query has no ORDER BY, the names come in any order
list_tables(store) == Orders(DOMAIN store)

formatted_test_tables(tables) ==
    Pick(tables, {k \in 1..Len(tables) : Contains(tables[k], FormattedMarker)})

\* The start of the digits a string ends with (i when s[i..] holds none before)
RECURSIVE TrailingDigits(_, _)
TrailingDigits(s, i) ==
    IF i > 1 /\ IsDigit(Ch(s, i - 1)) THEN TrailingDigits(s, i - 1) ELSE i

EndNumFrom(name, i) ==
    IF i <= Len(name) /\ EndsWith(SubSeq(name, 1, i - 1), FormattedMarker)
    THEN ParseInt(SubSeq(name, i, Len(name)))
    ELSE -1

\* re.search(r"_dfFormattedCleanTest_(\d+)$", name): the number, or -1
end_num(name) == EndNumFrom(name, TrailingDigits(name, Len(name) + 1))

\* candidates.sort(key=end_num, reverse=True)[0]: the sort is stable, so the
\* first of the candidates with the highest number
FirstHighest(candidates) ==
    candidates[CHOOSE k \in 1..Len(candidates) :
        /\ \A j \in 1..Len(candidates) : end_num(candidates[j]) <= end_num(candidates[k])
        /\ \A j \in 1..(k - 1) : end_num(candidates[j]) < end_num(candidates[k])]

DetectAmong(tables, candidates) ==
    IF candidates = <<>>
    THEN (IF tables # <<>> THEN tables[1] ELSE NoneName)
    ELSE FirstHighest(candidates)

detect_summative_table(tables) == DetectAmong(tables, formatted_test_tables(tables))

\* re.fullmatch(r"Q\d+", str(c))
IsQColumn(col) == StartsWith(col, "Q") /\ AllDigits(SubSeq(col, 2, Len(col)))

\* The dtype of pd.to_numeric(column, errors="coerce").fillna(0)
NumericDtype(cells, dtype) ==
    IF dtype # "object" THEN dtype
    ELSE IF \A k \in 1..Len(cells) : IsNum(ToNumeric(cells[k])) THEN "int64"
    ELSE "float64"

\* What get_total_score returns: a Series, or None
NoTotal == [none |-> TRUE, cells |-> <<>>, dtype |-> "object"]
Series(cells, dtype) == [none |-> FALSE, cells |-> cells, dtype |-> dtype]

\* Lines 80-82
ScoreSeries(t, c) ==
    Series(NumericFill0(Column(t, c)), NumericDtype(Column(t, c), t.dtypes[c]))

\* Lines 85-88: the sum of the Q columns at qidx, None when there is none
QSeries(t, qidx) ==
    IF qidx = <<>> THEN NoTotal
    ELSE Series([r \in 1..Len(t.rows) |-> SumCells(NumericFill0(PickAt(t.rows[r], qidx)))],
                IF \E j \in 1..Len(qidx) :
                       NumericDtype(Column(t, qidx[j]), t.dtypes[qidx[j]]) = "float64"
                THEN "float64" ELSE "int64")

get_total_score(t) ==
    IF HasColumn(t, "score") THEN ScoreSeries(t, ColIndex(t, "score"))
    ELSE QSeries(t, SelectIdx(Len(t.columns), 1,
                              {c \in 1..Len(t.columns) : IsQColumn(t.columns[c])}))

\* The dtypes of the frame after df["total"] = total (None makes an object column)
TotalDtypes(t, total) ==
    IF HasColumn(t, "total") THEN [t.dtypes EXCEPT ![ColIndex(t, "total")] = total.dtype]
    ELSE Append(t.dtypes, total.dtype)

\* The keys sort_values("total") sorts by (a column of None sorts as all equal)
SortKeys(t, total) ==
    IF total.none THEN [r \in 1..Len(t.rows) |-> Num(0)] ELSE total.cells

\* The rows kept at the positions keep of the order p, as iterrows reads them:
\* str(row[id_col]) and row["total"]
BestRowsAt(t, idc, total, p, rowdtype, keep) ==
    [j \in 1..Len(keep) |->
        [id |-> PyStr(t.rows[p[keep[j]]][idc], t.dtypes[idc], rowdtype),
         score |-> IF total.none THEN NaN ELSE total.cells[p[keep[j]]]]]

BestRowsIn(t, idc, total, p, rowdtype) ==
    BestRowsAt(t, idc, total, p, rowdtype,
               SelectIdx(Len(p), 1, FirstOccurrences(Column(t, idc), p)))

\* sort_values("total", ascending=False).drop_duplicates(subset=[id_col],
\* keep="first"), read row by row.  Rows of one identity with equal totals may
\* be sorted either way; they give the same identity and the same total.
BestRows(t, idc, total) ==
    BestRowsIn(t, idc, total, StableDescOrder(SortKeys(t, total)),
               RowDtype(TotalDtypes(t, total)))

BestOf(t) == BestRows(t, ColIndex(t, detect_id_col(t.columns)), get_total_score(t))

\* Lines 125-130: the rows of one formative table folded into formative_min
\* (float(nan or 0) is nan, and no comparison with nan is true)
RECURSIVE FoldRows(_, _, _, _)
FoldRows(fmin, rows, k, tname) ==
    IF k > Len(rows) THEN fmin
    ELSE FoldRows(IF rows[k].id \notin DOMAIN fmin
                        \/ Less(rows[k].score, fmin[rows[k].id].score)
                  THEN DictSet(fmin, rows[k].id, [score |-> rows[k].score, table |-> tname])
                  ELSE fmin,
                  rows, k + 1, tname)

\* Lines 113-130: the loop over the formative tables
RECURSIVE FormativeLoop(_, _, _, _)
FormativeLoop(store, names, k, fmin) ==
    IF k > Len(names) THEN [raised |-> "none", min |-> fmin]
    ELSE IF ~HasIdCol(store[names[k]].columns) THEN [raised |-> "ValueError", min |-> fmin]
    ELSE FormativeLoop(store, names, k + 1,
                       FoldRows(fmin, BestOf(store[names[k]]), 1, names[k]))

\* sum_score <= threshold
IsUnderperformingOrEqual(sum_score, threshold) == ~Less(threshold, sum_score)

\* sum_score < threshold
IsUnderperforming(sum_score, threshold) == Less(sum_score, threshold)

\* None, as a lowest_formative_score
NoScore == [t |-> "none"]

\* Lines 135-141
ReportRow(b, st, threshold, fmin) ==
    [student_id |-> b.id,
     summative_table |-> st,
     summative_score |-> b.score,
     lowest_formative_score |-> IF b.id \in DOMAIN fmin THEN fmin[b.id].score ELSE NoScore,
     lowest_formative_table |-> IF b.id \in DOMAIN fmin THEN fmin[b.id].table ELSE "N/A",
     is_underperforming |-> IsUnderperforming(b.score, threshold)]

Failed(exc) == [raised |-> exc, rows |-> <<>>]

\* Lines 133-141: float(None) is a TypeError
RowsOfBest(st, threshold, none, best, fmin) ==
    IF none /\ best # <<>> THEN Failed("TypeError")
    ELSE [raised |-> "none",
          rows |-> [k \in 1..Len(best) |-> ReportRow(best[k], st, threshold, fmin)]]

RowsAfterFormative(t, st, threshold, total, f) ==
    IF f.raised # "none" THEN Failed(f.raised)
    ELSE RowsOfBest(st, threshold, total.none,
                    BestRows(t, ColIndex(t, detect_id_col(t.columns)), total), f.min)

\* Lines 99-141: the rows of the report before the final sort, or the exception
BuildRows(store, tests, st, threshold) ==
    IF st \notin DOMAIN store THEN Failed("DatabaseError")
    ELSE IF ~HasIdCol(store[st].columns) THEN Failed("ValueError")
    ELSE RowsAfterFormative(store[st], st, threshold, get_total_score(store[st]),
             FormativeLoop(store, Pick(tests, {k \in 1..Len(tests) : tests[k] # st}),
                           1, EmptyDict))

----------------------------------------------------------------------------
(* StudentPerformance *)

StudentIdKeys ==
    <<"researchid", "researcherid", "researcher", "studentid", "student",
      "candidateid", "candidate", "learnerid", "userid", "user", "id">>

\* k in norm(column)
KeyInColumn(key, col) == Contains(DropSpaceUnderscoreDash(StrLower(col)), key)

HasStudentIdCol(columns) ==
    \E k \in 1..Len(StudentIdKeys) : \E c \in 1..Len(columns) :
        KeyInColumn(StudentIdKeys[k], columns[c])

\* The first column that holds the key
FirstColumnWith(columns, key) ==
    CHOOSE c \in 1..Len(columns) :
        KeyInColumn(key, columns[c]) /\ \A b \in 1..(c - 1) : ~KeyInColumn(key, columns[b])

\* The position of the identity column: the keys in their order of priority, the
\* columns in theirs (ValueError when no key is found)
detect_student_id_col(columns) ==
    FirstColumnWith(columns,
        StudentIdKeys[CHOOSE k \in 1..Len(StudentIdKeys) :
            /\ \E c \in 1..Len(columns) : KeyInColumn(StudentIdKeys[k], columns[c])
            /\ \A j \in 1..(k - 1) : \A c \in 1..Len(columns) :
                   ~KeyInColumn(StudentIdKeys[j], columns[c])])

\* int(re.findall(r"\d+", x)[0]) of a column Q<digits>
QNumber(col) == ParseInt(SubSeq(col, 2, Len(col)))

\* qcols.sort(key=number) over the columns at the positions in cs (stable)
RECURSIVE SortByNumber(_, _)
SortByNumber(columns, cs) ==
    IF cs = {} THEN <<>>
    ELSE LET m == CHOOSE c \in cs : \A d \in cs :
                      \/ QNumber(columns[c]) < QNumber(columns[d])
                      \/ QNumber(columns[c]) = QNumber(columns[d]) /\ c <= d
         IN  <<m>> \o SortByNumber(columns, cs \ {m})

\* The positions of the question columns, by number (ValueError when empty)
question_columns(columns) ==
    SortByNumber(columns, {c \in 1..Len(columns) : IsQColumn(columns[c])})

\* if s.max() <= 1.0: s = s * 100
ScaleUp(s, mx) ==
    IF IsNum(mx) /\ RLeq(mx, Num(1)) THEN [k \in 1..Len(s) |-> RMul(s[k], Num(100))] ELSE s

\* if s.max() > 100: s = (s / mx) * 100
ScaleDown(s, mx) ==
    IF Greater(mx, Num(100)) THEN [k \in 1..Len(s) |-> RMul(RDiv(s[k], mx), Num(100))]
    ELSE s

ScaledUp(s) == ScaleUp(s, SeriesMax(s))
ScaledDown(s) == ScaleDown(s, SeriesMax(s))

ensure_numeric_0_100(cells) == ScaledDown(ScaledUp(NumericFill0(cells)))

\* preferred[0]: the first formatted table of the list, else the first table
PickAmong(tables, preferred) ==
    IF preferred # <<>> THEN preferred[1]
    ELSE IF tables # <<>> THEN tables[1] ELSE NoneName

pick_default_test_table(tables) == PickAmong(tables, formatted_test_tables(tables))

\* Series.mean()
Mean(cells) == RDiv(SumCells(cells), Num(Len(cells)))

\* The rows of the student that sort_values("_totalQ", ascending=False).head(1)
\* may keep: those of the highest total (stud holds, per question, the student's
\* values)
BestAttempts(stud, n) ==
    {b \in 1..n : \A a \in 1..n :
        RLeq(SumCells([j \in 1..Len(stud) |-> stud[j][a]]),
             SumCells([j \in 1..Len(stud) |-> stud[j][b]]))}

AnalyseCall(student_id, arg, table, raised, result) ==
    [op |-> "analyse", inst |-> "", raised |-> raised, student_id |-> student_id,
     table_arg |-> arg, table |-> table, result |-> result]

\* Lines 135-148: the result for the attempt b
ResultRows(labels, full, stud, b) ==
    [j \in 1..Len(labels) |->
        [Question |-> labels[j], Absolute |-> stud[j][b], Average |-> Mean(full[j]),
         Relative |-> RSub(stud[j][b], Mean(full[j]))]]

AnalyseScaled(student_id, arg, table, labels, full, stud, n) ==
    {AnalyseCall(student_id, arg, table, "none", ResultRows(labels, full, stud, b)) :
        b \in BestAttempts(stud, n)}

\* Lines 122-125: every question column rescaled, of the table and of the
\* student's rows apart
AnalyseQuestions(t, student_id, arg, table, srows, qidx) ==
    IF qidx = <<>> THEN {AnalyseCall(student_id, arg, table, "ValueError", <<>>)}
    ELSE AnalyseScaled(student_id, arg, table, PickAt(t.columns, qidx),
            [j \in 1..Len(qidx) |-> ensure_numeric_0_100(Column(t, qidx[j]))],
            [j \in 1..Len(qidx) |->
                ensure_numeric_0_100(PickAt(Column(t, qidx[j]), srows))],
            Len(srows))

\* Lines 116-120
AnalyseStudent(t, student_id, arg, table, srows) ==
    IF srows = <<>> THEN {AnalyseCall(student_id, arg, table, "ValueError", <<>>)}
    ELSE AnalyseQuestions(t, student_id, arg, table, srows, question_columns(t.columns))

\* df[sid_col].astype(str) == str(student_id)
StudentRows(t, student_id, c) ==
    SelectIdx(Len(t.rows), 1,
        {r \in 1..Len(t.rows) : PyStr(t.rows[r][c], t.dtypes[c], t.dtypes[c]) = student_id})

\* Lines 110-114
AnalyseTable(store, student_id, arg, table) ==
    IF table \notin DOMAIN store \/ ~HasStudentIdCol(store[table].columns)
    THEN {AnalyseCall(student_id, arg, table, "ValueError", <<>>)}
    ELSE AnalyseStudent(store[table], student_id, arg, table,
             StudentRows(store[table], student_id,
                         detect_student_id_col(store[table].columns)))

\* Lines 103-108
AnalyseTables(store, student_id, arg, tables) ==
    IF tables = <<>>
    THEN {AnalyseCall(student_id, arg, NoneName, "FileNotFoundError", <<>>)}
    ELSE AnalyseTable(store, student_id, arg,
             IF arg = NoneName THEN pick_default_test_table(tables) ELSE arg)

\* Everything analyse(student_id, table) may return or raise on a store; its
\* list_tables is ordered by name
AnalyseResults(store, student_id, arg) ==
    AnalyseTables(store, student_id, arg, SortedNames(DOMAIN store))

----------------------------------------------------------------------------
(* TestResultsAnalyzer.get_student_scores *)

ScanIdKeys ==
    {"researchid", "researcherid", "studentid", "student", "candidateid",
     "candidate", "userid", "user", "id"}

\* any(k in c.lower() for k in [...]): the name as it is, only lower-cased
IsScanIdColumn(col) == \E key \in ScanIdKeys : Contains(StrLower(col), key)

\* id_cols is empty: the table is passed over
HasScanIdColumn(columns) == \E c \in 1..Len(columns) : IsScanIdColumn(columns[c])

\* id_cols[0], as a position
ScanIdColumn(columns) ==
    CHOOSE c \in 1..Len(columns) :
        IsScanIdColumn(columns[c]) /\ \A b \in 1..(c - 1) : ~IsScanIdColumn(columns[b])

NoInt == [ok |-> FALSE, v |-> 0]
SomeInt(v) == [ok |-> TRUE, v |-> v]

\* int(float(s)) of a decimal numeral <digits> or <digits>.<digits>: the digits
\* before the point; ValueError, kept as NoInt, for any other text
IntOfDecimal(s, e) ==
    IF e = 1 THEN NoInt
    ELSE IF e = Len(s) + 1 THEN SomeInt(ParseInt(s))
    ELSE IF Ch(s, e) = "." /\ AllDigits(SubSeq(s, e + 1, Len(s)))
         THEN SomeInt(ParseInt(SubSeq(s, 1, e - 1)))
    ELSE NoInt

\* Lines 28-33: sid_int of sid_raw
SidInt(sid_raw) == IntOfDecimal(sid_raw, DigitsEnd(sid_raw, 1))

\* The integer a text starts with, after leading blanks; 0 when it starts with none
IntPrefixAt(s, i) == ParseInt(SubSeq(s, i, DigitsEnd(s, i) - 1))

\* CAST(x AS INTEGER) of sqlite: an integer as it is, a real cut towards zero, a
\* text by the integer it starts with; NULL stays NULL (NoInt)
CastInteger(c) ==
    IF IsNaN(c) THEN NoInt
    ELSE IF IsTxt(c) THEN SomeInt(IntPrefixAt(c.s, SkipWs(c.s, 1)))
    ELSE IF c.n >= 0 THEN SomeInt(c.n \div c.d)
    ELSE SomeInt(-((-c.n) \div c.d))

\* TRIM(CAST(x AS TEXT)) of sqlite: 1 of an INTEGER column is '1', 1.0 of a REAL
\* column '1.0'; NULL stays NULL, which equals nothing
CastTextIs(c, dtype, sid_raw) ==
    IF IsNaN(c) THEN FALSE
    ELSE IF IsTxt(c) THEN Strip(c.s) = sid_raw
    ELSE PyStrNum(c, dtype = "float64") = sid_raw

\* Lines 56-62: the WHERE clause of the query
ScanMatches(c, dtype, sid_raw, sid_int) ==
    IF sid_int.ok THEN CastInteger(c) = sid_int ELSE CastTextIs(c, dtype, sid_raw)

\* The statement brackets the names it is built from, [name], and quotes the
\* table name once more, 'name': a name with a closing bracket, or a table name
\* with a quote, is a syntax error (lines 47, 57, 61), caught at line 67
ScanRaises(table, id_col) ==
    Contains(table, "]") \/ Contains(table, "'") \/ Contains(id_col, "]")

\* SELECT *, '<table>' AS source_table ... : the matching rows, in table order
ScanRows(t, table, idx) ==
    [j \in 1..Len(idx) |->
        [source_table |-> table, columns |-> t.columns, cells |-> t.rows[idx[j]]]]

ScanSelect(t, table, c, sid_raw, sid_int) ==
    ScanRows(t, table,
        SelectIdx(Len(t.rows), 1,
            {r \in 1..Len(t.rows) :
                ScanMatches(t.rows[r][c], t.dtypes[c], sid_raw, sid_int)}))

\* Lines 45-68: what one table adds to student_data
ScanTable(t, table, sid_raw, sid_int) ==
    IF ~HasScanIdColumn(t.columns) THEN <<>>
    ELSE IF ScanRaises(table, t.columns[ScanIdColumn(t.columns)]) THEN <<>>
    ELSE ScanSelect(t, table, ScanIdColumn(t.columns), sid_raw, sid_int)

\* Lines 44-68, then pd.concat: the tables in the order of the list
RECURSIVE ScanLoop(_, _, _, _, _)
ScanLoop(store, tables, k, sid_raw, sid_int) ==
    IF k > Len(tables) THEN <<>>
    ELSE ScanTable(store[tables[k]], tables[k], sid_raw, sid_int)
             \o ScanLoop(store, tables, k + 1, sid_raw, sid_int)

\* Lines 72-76: None when nothing was found
ScanCall(student_id, rows) ==
    [op |-> "get_student_scores", inst |-> "", raised |-> "none",
     student_id |-> student_id, none |-> (rows = <<>>), result |-> rows]

\* A scan to which a table without identity column is fatal: nothing is returned
ScanStudentFatal(store, student_id, sid_raw) ==
    IF \E n \in DOMAIN store : ~HasScanIdColumn(store[n].columns)
    THEN ScanCall(student_id, <<>>)
    ELSE ScanCall(student_id,
             ScanLoop(store, SortedNames(DOMAIN store), 1, sid_raw, SidInt(sid_raw)))

ScanStudent(store, student_id, sid_raw) ==
    ScanCall(student_id,
             ScanLoop(store, SortedNames(DOMAIN store), 1, sid_raw, SidInt(sid_raw)))

\* What get_student_scores(db_path, student_id) returns on a store
ScanResult(store, student_id) == ScanStudent(store, student_id, Strip(student_id))

----------------------------------------------------------------------------
(* The query layer on a store the pipeline has filled *)

ReportCall(tables, arg, threshold, st, raised, report) ==
    [op |-> "build_report", inst |-> "", raised |-> raised, tables |-> tables,
     summative_arg |-> arg, threshold |-> threshold, summative_table |-> st,
     report |-> report]

\* Line 143: the rows sorted by summative_score, ascending (rows of equal score in
\* any order); sort_values on the empty frame is a KeyError
ReportOf(tables, arg, threshold, st, res) ==
    IF res.raised # "none" THEN {ReportCall(tables, arg, threshold, st, res.raised, <<>>)}
    ELSE IF res.rows = <<>> THEN {ReportCall(tables, arg, threshold, st, "KeyError", <<>>)}
    ELSE {ReportCall(tables, arg, threshold, st, "none",
                     [a \in 1..Len(res.rows) |-> res.rows[q[a]]]) :
             q \in AscOrders([k \in 1..Len(res.rows) |-> res.rows[k].summative_score])}

ReportResolved(store, tables, arg, threshold, tests, st) ==
    ReportOf(tables, arg, threshold, st, BuildRows(store, tests, st, threshold))

\* Lines 96-97
ReportFor(store, tables, arg, threshold, tests) ==
    ReportResolved(store, tables, arg, threshold, tests,
                   IF arg = NoneName THEN detect_summative_table(tests) ELSE arg)

\* Everything build_report(summative_table, threshold) may return or raise on a
\* store whose tables are listed in the order tables
ReportResults(store, tables, arg, threshold) ==
    ReportFor(store, tables, arg, threshold, formatted_test_tables(tables))

build_report(summative_table, threshold) ==
    /\ \E tables \in list_tables(db) :
           \E res \in ReportResults(db, tables, summative_table, threshold) : last' = res
    /\ UNCHANGED <<clean_counter, csv_path, df, current_prefix, max_map, attrs, db>>

analyse(student_id, table) ==
    /\ \E res \in AnalyseResults(db, student_id, table) : last' = res
    /\ UNCHANGED <<clean_counter, csv_path, df, current_prefix, max_map, attrs, db>>

get_student_scores(student_id) ==
    /\ last' = ScanResult(db, student_id)
    /\ UNCHANGED <<clean_counter, csv_path, df, current_prefix, max_map, attrs, db>>

\* Tables a store may hold
MaxTables == 3

\* Tables as the pipeline saves them.  cw1: two attempts of student 1, an
\* identity column the pipeline does not deduplicate by; its raw table; a second
\* run of it, deduplicated; an exam with a name column; a table with neither
\* score nor Q column; one without identity column; an empty one; a cleaned
\* table that was not rescaled, its identity header holding brackets; a raw
\* table of text identities.
Catalogue ==
    [cw1_dfFormattedCleanTest_1 |->
        Table(<<"ResearchID", "Q1", "score">>, <<"int64", "float64", "float64">>,
              << <<Num(1), Num(50), Num(30)>>, <<Num(1), Num(100), Num(40)>>,
                 <<Num(2), Num(0), Num(55)>>, <<Num(3), Num(50), Num(40)>> >>),
     cw1_dftest_1 |->
        Table(<<"Research ID", "Q1/2", "Grade/100">>, <<"int64", "int64", "int64">>,
              << <<Num(1), Num(1), Num(30)>>, <<Num(1), Num(2), Num(40)>>,
                 <<Num(2), Num(0), Num(55)>>, <<Num(3), Num(1), Num(40)>> >>),
     cw1_dfFormattedCleanTest_2 |->
        Table(<<"student_id", "Q1", "Q2">>, <<"int64", "float64", "float64">>,
              << <<Num(1), Num(100), Num(50)>>, <<Num(2), Num(40), Num(0)>>,
                 <<Num(3), Num(0), Num(100)>> >>),
     final_exam_dfFormattedCleanTest_1 |->
        Table(<<"student_id", "Name", "score">>, <<"int64", "object", "float64">>,
              << <<Num(1), Txt("ann"), Num(80)>>, <<Num(2), Txt("bob"), Num(35)>> >>),
     cw2_dfFormattedCleanTest_3 |->
        Table(<<"student_id", "Mark">>, <<"int64", "int64">>,
              << <<Num(1), Num(12)>>, <<Num(2), Num(7)>> >>),
     notes_dfFormattedCleanTest_1 |->
        Table(<<"Name", "score">>, <<"object", "float64">>, << <<Txt("ann"), Num(100)>> >>),
     empty_dfFormattedCleanTest_4 |->
        Table(<<"student_id", "score">>, <<"object", "object">>, <<>>),
     quiz_dfCleanTest_1 |->
        Table(<<"Student[ID]", "Q1">>, <<"int64", "int64">>,
              << <<Num(1), Num(1)>>, <<Num(2), Num(200)>> >>),
     lab_dftest_1 |->
        Table(<<"Candidate No", "Grade/10">>, <<"object", "int64">>,
              << <<Txt("s7"), Num(4)>>, <<Txt(" 2 "), Num(9)>> >>)]

\* The stores: any MaxTables or fewer of the tables
Stores ==
    {[n \in names |-> Catalogue[n]] :
        names \in {x \in SUBSET DOMAIN Catalogue : Cardinality(x) <= MaxTables}}

\* Arguments of the queries: no table named, or a name (one the store may lack)
TableArgs == {NoneName} \cup DOMAIN Catalogue
Thresholds == {Num(40), Num(55)}
StudentArgs == {"1", "2", "1.0", "9"}
ScanArgs == StudentArgs \cup {"s7", " 2 "}

InitQuery ==
    /\ clean_counter = 0
    /\ csv_path = [i \in Instances |-> "missing.csv"]
    /\ df = [i \in Instances |-> NoDf]
    /\ current_prefix = [i \in Instances |-> NoPrefix]
    /\ max_map = [i \in Instances |-> EmptyDict]
    /\ attrs = [i \in Instances |-> EmptyDict]
    /\ db \in Stores
    /\ last = [op |-> "init", inst |-> "", raised |-> "none"]

\* A query reads the store and changes nothing, so every query is taken from the
\* store as it was filled
ReportQuery ==
    /\ last.op = "init"
    /\ \E table \in TableArgs : \E threshold \in Thresholds : build_report(table, threshold)

AnalyseQuery ==
    /\ last.op = "init"
    /\ \E student_id \in StudentArgs : \E table \in TableArgs : analyse(student_id, table)

ScanQuery ==
    /\ last.op = "init"
    /\ \E student_id \in ScanArgs : get_student_scores(student_id)

NextQuery == ReportQuery \/ AnalyseQuery \/ ScanQuery

\* One report, analysis or scan on a filled store
SpecQuery == InitQuery /\ [][NextQuery]_vars

----------------------------------------------------------------------------
(* The snapshots of a run, and what the properties below say about them *)

AttrName(prefix, n) == prefix \o ToString(n)

\* Instance i holds the snapshots of run n
HasRun(i, n) == AttrName("dftest_", n) \in DOMAIN attrs[i]

RawSnapshot(i, n) == attrs[i][AttrName("dftest_", n)]
CleanedSnapshot(i, n) == attrs[i][AttrName("dfCleanTest_", n)]
FormattedSnapshot(i, n) == attrs[i][AttrName("dfFormattedCleanTest_", n)]

\* The canonical names of the columns of a raw snapshot and the maxima they declare
Canonical(raw) == standardize_columns(raw.columns)

FilledCell(c) == IF IsNaN(c) THEN Num(0) ELSE c

\* The first position of a label
FirstIndex(columns, name) ==
    CHOOSE c \in 1..Len(columns) :
        columns[c] = name /\ \A b \in 1..(c - 1) : columns[b] # name

\* The total of a row over the columns whose name starts with Q or Grades or is
\* score, a missing cell counted as 0
RECURSIVE ScoreTotal(_, _, _)
ScoreTotal(columns, row, c) ==
    IF c > Len(columns) THEN Num(0)
    ELSE RAdd(IF IsDedupScoreColumn(columns[c]) THEN FilledCell(row[c]) ELSE Num(0),
              ScoreTotal(columns, row, c + 1))

HasScoreColumn(columns) == \E c \in 1..Len(columns) : IsDedupScoreColumn(columns[c])

\* The score columns hold numbers or nothing, and no two columns share a name
PlainScores(canon, raw) ==
    /\ \A a, b \in 1..Len(canon) : a # b => canon[a] # canon[b]
    /\ \A c \in 1..Len(canon) : IsDedupScoreColumn(canon[c]) =>
           \A r \in 1..Len(raw.rows) : ~IsTxt(raw.rows[r][c])

\* One row per value of the identity column (at rid in the raw frame, at cid in
\* the cleaned one), a missing identity read as 0; the row kept is an input row
\* and no input row of the same identity has a higher total.
OnePerIdentity(canon, raw, cleaned, rid, cid) ==
    /\ \A a, b \in 1..Len(cleaned.rows) :
           a # b => cleaned.rows[a][cid] # cleaned.rows[b][cid]
    /\ \A x \in 1..Len(raw.rows) : \E r \in 1..Len(cleaned.rows) :
           /\ cleaned.rows[r][cid] = FilledCell(raw.rows[x][rid])
           /\ RLeq(ScoreTotal(canon, raw.rows[x], 1),
                   ScoreTotal(cleaned.columns, cleaned.rows[r], 1))
    /\ \A r \in 1..Len(cleaned.rows) : \E x \in 1..Len(raw.rows) :
           /\ cleaned.rows[r][cid] = FilledCell(raw.rows[x][rid])
           /\ ScoreTotal(canon, raw.rows[x], 1)
                  = ScoreTotal(cleaned.columns, cleaned.rows[r], 1)

OnePerValueOf(canon, raw, cleaned, idname) ==
    OnePerIdentity(canon, raw, cleaned, FirstIndex(canon, idname),
                   FirstIndex(cleaned.columns, idname))

\* The claim as stated, for one run: the identity column is the column the
\* identity detection of the query layer finds
DedupOfIdentityColumn(canon, raw, cleaned) ==
    HasIdCol(canon) => OnePerValueOf(canon, raw, cleaned, detect_id_col(canon))

\* The amended claim, for one run
DedupOfStudentId(canon, raw, cleaned) ==
    ((\E c \in 1..Len(canon) : canon[c] = "student_id")
        /\ HasScoreColumn(canon) /\ PlainScores(canon, raw))
    => OnePerValueOf(canon, raw, cleaned, "student_id")

\* C1 as stated: after clean_dataframe of any table that has an identity column
\* the cleaned snapshot holds exactly one row for every identity value of the
\* input, and no discarded row of that identity has a higher total.
C1_AnyIdentityColumn ==
    \A i \in Instances : \A n \in 1..clean_counter :
        HasRun(i, n) =>
            DedupOfIdentityColumn(Canonical(RawSnapshot(i, n)).columns,
                                  RawSnapshot(i, n), CleanedSnapshot(i, n))

\* C1 (amended): after clean_dataframe of a table whose canonical column names
\* are pairwise distinct and include student_id and at least one name that
\* starts with Q or Grades or is score, those columns holding numbers or
\* missing values, the cleaned snapshot holds exactly one row for every
\* student_id value of the input (a missing one read as 0), that row is an
\* input row, and its total over those columns (missing read as 0) is greater
\* than or equal to the total of every input row with the same student_id.
C1_StudentIdDedup ==
    \A i \in Instances : \A n \in 1..clean_counter :
        HasRun(i, n) =>
            DedupOfStudentId(Canonical(RawSnapshot(i, n)).columns,
                             RawSnapshot(i, n), CleanedSnapshot(i, n))

\* C1 witness: a run whose input repeats a student_id and whose cleaned snapshot
\* dropped a row
C1_Witness ==
    \E i \in Instances : \E n \in 1..clean_counter :
        /\ HasRun(i, n)
        /\ HasColumn(CleanedSnapshot(i, n), "student_id")
        /\ HasScoreColumn(CleanedSnapshot(i, n).columns)
        /\ Len(CleanedSnapshot(i, n).rows) < Len(RawSnapshot(i, n).rows)

\* The values of the score columns of a formatted frame lie in 0..100, and are
\* 0 in a column whose divisor is not positive
InRange(cleaned, formatted, mm) ==
    \A c \in 1..Len(formatted.columns) :
        IsScoreColumn(formatted.columns[c]) =>
            \A r \in 1..Len(formatted.rows) :
                /\ IsNum(formatted.rows[r][c])
                /\ RLeq(Num(0), formatted.rows[r][c])
                /\ RLeq(formatted.rows[r][c], Num(100))
                /\ ~Greater(MaxPossible(Column(cleaned, c), formatted.columns[c], mm),
                            Num(0))
                       => formatted.rows[r][c] = Num(0)

\* C2: after normalize_scores every value of every score column (Q<digits>,
\* Grades<digits>, score) of the formatted table is between 0 and 100, and is 0
\* when the column's divisor is not positive.
C2_NormalizedRange ==
    \A i \in Instances : \A n \in 1..clean_counter :
        HasRun(i, n) =>
            InRange(CleanedSnapshot(i, n), FormattedSnapshot(i, n),
                    Canonical(RawSnapshot(i, n)).max_map)

\* C3: the run numbers of an instance are its own: the first run of an
\* instance is run 1 and its n-th run is run n, so the runs an instance holds
\* are numbered 1..k without a gap.
C3_RunsNumberedPerInstance ==
    \A i \in Instances : \A n \in 1..clean_counter :
        HasRun(i, n) => \A m \in 1..n : HasRun(i, m)

\* Each row of the cleaned snapshot is a row of the raw one with its missing
\* cells read as 0 and the state and timetaken columns removed: no value of it
\* was rescaled
PreNormalization(canon, raw, cleaned) ==
    \A r \in 1..Len(cleaned.rows) : \E x \in 1..Len(raw.rows) :
        cleaned.rows[r]
            = Pick([c \in 1..Len(canon) |-> FilledCell(raw.rows[x][c])],
                   {c \in 1..Len(canon) : canon[c] \notin {"state", "timetaken"}})

\* What one step does to the snapshots of instance i
SnapshotsKept(i) ==
    /\ \A x \in DOMAIN attrs[i] : x \in DOMAIN attrs'[i] /\ attrs'[i][x] = attrs[i][x]
    /\ Cardinality(DOMAIN attrs'[i])
           = 3 * Cardinality({n \in 1..clean_counter' :
                                 AttrName("dftest_", n) \in DOMAIN attrs'[i]})
    /\ IF last'.op = "clean_dataframe" /\ last'.raised = "none" /\ last'.inst = i
       THEN /\ Cardinality(DOMAIN attrs'[i]) = Cardinality(DOMAIN attrs[i]) + 3
            /\ attrs'[i][AttrName("dftest_", last'.test_num)] = df[i]
            /\ PreNormalization(standardize_columns(df[i].columns).columns, df[i],
                                attrs'[i][AttrName("dfCleanTest_", last'.test_num)])
            /\ attrs'[i][AttrName("dfFormattedCleanTest_", last'.test_num)] = df'[i]
       ELSE DOMAIN attrs'[i] = DOMAIN attrs[i]

\* C4: no operation changes or removes a snapshot an instance holds; a
\* successful clean_dataframe adds exactly three (the frame it was called on,
\* the cleaned frame with its values not rescaled, the formatted frame), so an
\* instance holds 3*k snapshots after k runs; no other operation adds any.
C4_SnapshotsAccumulate == [][\A i \in Instances : SnapshotsKept(i)]_vars

\* C4 witness: an instance holds the six snapshots of two runs, the cleaned
\* snapshot of the first differs from the formatted one, and normalize_scores
\* has just run on the instance
C4_Witness ==
    \E i \in Instances :
        /\ Cardinality(DOMAIN attrs[i]) = 6
        /\ \E n \in 1..clean_counter :
               HasRun(i, n) /\ CleanedSnapshot(i, n) # FormattedSnapshot(i, n)
        /\ last.op = "normalize_scores" /\ last.inst = i

\* What a clean_dataframe step does to the run counter
CounterStep ==
    /\ (last'.op = "clean_dataframe" /\ df[last'.inst] = NoDf) =>
           /\ last'.raised = "ValueError"
           /\ UNCHANGED <<clean_counter, csv_path, df, current_prefix, max_map, attrs, db>>
    /\ (last'.op = "clean_dataframe" /\ last'.raised = "none") =>
           /\ df[last'.inst] # NoDf
           /\ last'.test_num = clean_counter + 1
           /\ clean_counter' = clean_counter + 1

\* C5: clean_dataframe on an instance that has no table loaded raises and
\* changes nothing: the run counter, the snapshots, the frames and the store
\* are as before, and a successful run takes the number after the current
\* counter, whatever failed before it.
C5_FailedCleanChangesNothing == [][CounterStep]_vars

\* C5 witness: clean_dataframe has just failed on an instance without a table,
\* after a run that succeeded
C5_Witness ==
    /\ last.op = "clean_dataframe"
    /\ last.raised = "ValueError"
    /\ df[last.inst] = NoDf
    /\ clean_counter > 0

----------------------------------------------------------------------------
(* What the properties below say about a report *)

\* The last call was build_report and it returned a report
Reported == last.op = "build_report" /\ last.raised = "none"

\* The position of the identity column of a table
IdColumn(t) == ColIndex(t, detect_id_col(t.columns))

\* The distinct values of the identity column
Identities(t, idc) == {t.rows[r][idc] : r \in 1..Len(t.rows)}

\* The highest of the totals of the rows of identity x
BestTotal(t, idc, totals, x) ==
    totals[CHOOSE r \in 1..Len(t.rows) :
              /\ t.rows[r][idc] = x
              /\ \A q \in 1..Len(t.rows) :
                     t.rows[q][idc] = x => RLeq(totals[q], totals[r])]

\* The rows of the report stand one to one for the identities of the table, each
\* with the identity's highest total
OneRowPerIdentity(report, t, idc, totals) ==
    /\ \A a, b \in 1..Len(report) : a # b => report[a].student_id # report[b].student_id
    /\ \E f \in [1..Len(report) -> Identities(t, idc)] :
           /\ \A x \in Identities(t, idc) : \E k \in 1..Len(report) : f[k] = x
           /\ \A a, b \in 1..Len(report) : a # b => f[a] # f[b]
           /\ \A k \in 1..Len(report) :
                  report[k].summative_score = BestTotal(t, idc, totals, f[k])

FlagsAreStrict(report, threshold) ==
    \A k \in 1..Len(report) :
        report[k].is_underperforming <=> RLess(report[k].summative_score, threshold)

\* C6: in every report build_report returns, is_underperforming is true exactly
\* when the row's summative score is strictly below the threshold (a score equal
\* to it is not flagged), and there is exactly one row per distinct identity of
\* the summative table, with the highest total among that identity's rows.
C6_StrictFlagOnePerIdentity ==
    Reported =>
        /\ FlagsAreStrict(last.report, last.threshold)
        /\ OneRowPerIdentity(last.report, db[last.summative_table],
                             IdColumn(db[last.summative_table]),
                             get_total_score(db[last.summative_table]).cells)

\* C6 witness: a report with a row whose score equals the threshold and is not
\* flagged, a row that is flagged, and fewer rows than the summative table has
C6_Witness ==
    /\ Reported
    /\ \E k \in 1..Len(last.report) :
           /\ last.report[k].summative_score = last.threshold
           /\ ~last.report[k].is_underperforming
    /\ \E k \in 1..Len(last.report) : last.report[k].is_underperforming
    /\ Len(last.report) < Len(db[last.summative_table].rows)

\* The total-score derivation in its stated order of preference: the score
\* column; else the sum of the Q<digits> columns; else the sum of the numeric
\* columns that are not identity-like; else 0 for every row
NumericOthers(t) ==
    SelectIdx(Len(t.columns), 1,
              {c \in 1..Len(t.columns) :
                  t.dtypes[c] \in {"int64", "float64"} /\ ~IsIdLike(t.columns[c])})

SumOfColumns(t, idx) ==
    [r \in 1..Len(t.rows) |-> SumCells(NumericFill0(PickAt(t.rows[r], idx)))]

StatedTotalOf(t, qidx) ==
    IF HasColumn(t, "score") THEN NumericFill0(Column(t, ColIndex(t, "score")))
    ELSE IF qidx # <<>> THEN SumOfColumns(t, qidx)
    ELSE SumOfColumns(t, NumericOthers(t))

StatedTotal(t) ==
    StatedTotalOf(t, SelectIdx(Len(t.columns), 1,
                               {c \in 1..Len(t.columns) : IsQColumn(t.columns[c])}))

\* The formative tables of a report: the formatted-test tables other than the
\* summative one
FormativeTables == {n \in DOMAIN db : Contains(n, FormattedMarker)} \ {last.summative_table}

\* Table n holds the identity x
HoldsIdentity(n, x) ==
    /\ HasIdCol(db[n].columns)
    /\ x \in Identities(db[n], IdColumn(db[n]))

\* The identity's best total in table n
BestIn(n, x) == BestTotal(db[n], IdColumn(db[n]), StatedTotal(db[n]), x)

\* What the row of identity x must say about the formative tables
LowestFormative(row, x) ==
    IF \A n \in FormativeTables : ~HoldsIdentity(n, x)
    THEN row.lowest_formative_score = NoScore /\ row.lowest_formative_table = "N/A"
    ELSE /\ row.lowest_formative_table \in FormativeTables
         /\ HoldsIdentity(row.lowest_formative_table, x)
         /\ row.lowest_formative_score = BestIn(row.lowest_formative_table, x)
         /\ \A n \in FormativeTables :
                HoldsIdentity(n, x) => RLeq(row.lowest_formative_score, BestIn(n, x))

\* The identities of the summative table t whose text is the row's student_id
IdentitiesOfRow(row, t, idc, rowdtype) ==
    {x \in Identities(t, idc) : PyStr(x, t.dtypes[idc], rowdtype) = row.student_id}

LowestFormativeRows(report, t) ==
    \A k \in 1..Len(report) :
        \A x \in IdentitiesOfRow(report[k], t, IdColumn(t),
                                 RowDtype(TotalDtypes(t, get_total_score(t)))) :
            LowestFormative(report[k], x)

\* C7: for every identity of a report, lowest_formative_score is the minimum,
\* over the formative tables that hold the identity, of the identity's best
\* total in the table, and lowest_formative_table is a table with that minimum;
\* an identity no formative table holds has no score and the table "N/A".
C7_LowestFormative ==
    Reported => LowestFormativeRows(last.report, db[last.summative_table])

\* C8: the total of a row is the score column, else the sum of the Q<digits>
\* columns, else the sum of the numeric columns that are not identity-like, else
\* 0, so build_report on a summative table that has an identity column and rows
\* returns a report with these totals, also when the table has neither a score
\* nor a Q column.
C8_TotalDerivation ==
    (/\ last.op = "build_report"
     /\ last.summative_table \in DOMAIN db
     /\ \A n \in FormativeTables \cup {last.summative_table} : HasIdCol(db[n].columns)
     /\ db[last.summative_table].rows # <<>>)
    => /\ last.raised = "none"
       /\ OneRowPerIdentity(last.report, db[last.summative_table],
                            IdColumn(db[last.summative_table]),
                            StatedTotal(db[last.summative_table]))

SummativeKeywords == <<"summative", "final", "online", "exam">>

\* The tests whose name holds the keyword
TestsWith(tests, kw) == {tests[k] : k \in {j \in 1..Len(tests) : Contains(tests[j], kw)}}

\* The tables the stated resolution allows for the listing tables
StatedSummative(tables, tests) ==
    IF \E w \in 1..Len(SummativeKeywords) : TestsWith(tests, SummativeKeywords[w]) # {}
    THEN TestsWith(tests,
             SummativeKeywords[CHOOSE w \in 1..Len(SummativeKeywords) :
                 /\ TestsWith(tests, SummativeKeywords[w]) # {}
                 /\ \A v \in 1..(w - 1) : TestsWith(tests, SummativeKeywords[v]) = {}])
    ELSE IF tests # <<>>
    THEN {tests[k] : k \in {j \in 1..Len(tests) :
                               \A i \in 1..Len(tests) : end_num(tests[i]) <= end_num(tests[j])}}
    ELSE IF tables # <<>> THEN {tables[1]}
    ELSE {NoneName}

\* C9: with no summative table named, build_report resolves it to a
\* formatted-test table whose name holds summative, final, online or exam (the
\* first keyword that matches any); else to the formatted-test table of the
\* highest run number; else, with no formatted-test table, to the first table
\* of the store.
C9_SummativeResolution ==
    (last.op = "build_report" /\ last.summative_arg = NoneName)
    => last.summative_table
           \in StatedSummative(last.tables, formatted_test_tables(last.tables))

\* The formatted tables of the highest run number, else the first table
LatestFormatted(tables, formatted) ==
    IF formatted # <<>>
    THEN {formatted[k] : k \in {j \in 1..Len(formatted) :
             \A i \in 1..Len(formatted) : end_num(formatted[i]) <= end_num(formatted[j])}}
    ELSE {tables[1]}

\* C10: with no table named, analyse takes the formatted table of the latest
\* run (the highest run number among the formatted tables of the store); with no
\* formatted table, the first table.
C10_DefaultTable ==
    (last.op = "analyse" /\ last.table_arg = NoneName /\ DOMAIN db # {})
    => last.table \in LatestFormatted(SortedNames(DOMAIN db),
                                      formatted_test_tables(SortedNames(DOMAIN db)))

----------------------------------------------------------------------------
(* Claim C11: the scan of all tables *)

Scanned == last.op = "get_student_scores"

\* A table the scan can read: it has an identity column and its query is not
\* an error
Scannable(store, n) ==
    /\ HasScanIdColumn(store[n].columns)
    /\ ~ScanRaises(n, store[n].columns[ScanIdColumn(store[n].columns)])

\* The cell holds the requested identity: the number written as the request
\* writes it (1 or 1.0), or the same text, blanks around it aside
HoldsRequested(c, student_id) ==
    \/ IsNum(c) /\ PyStrNum(c, FALSE) = Strip(student_id)
    \/ IsNum(c) /\ PyStrNum(c, TRUE) = Strip(student_id)
    \/ IsTxt(c) /\ Strip(c.s) = Strip(student_id)

\* The rows of table n that hold the requested identity
RequestedRows(store, n, student_id) ==
    {r \in 1..Len(store[n].rows) :
        HoldsRequested(store[n].rows[r][ScanIdColumn(store[n].columns)], student_id)}

InResult(result, n, cells) ==
    \E k \in 1..Len(result) : result[k].source_table = n /\ result[k].cells = cells

\* C11: a scan never raises; whatever other tables the store holds, its result
\* has every row that holds the requested identity, of every table that has an
\* identity column and can be queried, each marked with its table; the result
\* is None only when no such table has such a row.
C11_FailingTablesSkipped ==
    Scanned =>
        /\ last.raised = "none"
        /\ \A n \in DOMAIN db :
               Scannable(db, n) =>
                   \A r \in RequestedRows(db, n, last.student_id) :
                       InResult(last.result, n, db[n].rows[r])
        /\ last.none =>
               \A n \in DOMAIN db :
                   Scannable(db, n) => RequestedRows(db, n, last.student_id) = {}
        /\ last.none <=> last.result = <<>>

\* A scan passed a table without identity column and one whose query is an
\* error, and returned the rows of a third
C11_Witness ==
    /\ Scanned
    /\ ~last.none
    /\ \E n \in DOMAIN db : ~HasScanIdColumn(db[n].columns)
    /\ \E n \in DOMAIN db : HasScanIdColumn(db[n].columns) /\ ~Scannable(db, n)
    /\ \E n \in DOMAIN db :
           Scannable(db, n) /\ RequestedRows(db, n, last.student_id) # {}

----------------------------------------------------------------------------
(* Claims C12-C14, C16: the rows and columns clean_dataframe keeps *)

AllMissing(row) == \A c \in 1..Len(row) : IsNaN(row[c])

\* The rows of a raw snapshot that hold at least one value
RowsWithValues(raw) == {r \in 1..Len(raw.rows) : ~AllMissing(raw.rows[r])}

\* C12: a row of the input in which every cell is missing is dropped, not
\* filled with zeros: the cleaned and the formatted snapshot of a run hold no
\* more rows than the input has rows with at least one value.
C12_AllMissingRowsDropped ==
    \A i \in Instances : \A n \in 1..clean_counter :
        HasRun(i, n) =>
            /\ Len(CleanedSnapshot(i, n).rows)
                   <= Cardinality(RowsWithValues(RawSnapshot(i, n)))
            /\ Len(FormattedSnapshot(i, n).rows)
                   <= Cardinality(RowsWithValues(RawSnapshot(i, n)))

FilledRow(row) == [c \in 1..Len(row) |-> FilledCell(row[c])]

\* Row x of the input comes before every other row of its identity that has
\* the same total, and no row of its identity has a higher total
FirstOfHighest(canon, raw, rid, x) ==
    \A y \in 1..Len(raw.rows) :
        (y # x /\ FilledCell(raw.rows[y][rid]) = FilledCell(raw.rows[x][rid])) =>
            \/ RLess(ScoreTotal(canon, raw.rows[y], 1), ScoreTotal(canon, raw.rows[x], 1))
            \/ /\ ScoreTotal(canon, raw.rows[y], 1) = ScoreTotal(canon, raw.rows[x], 1)
               /\ x < y

\* Every row kept is the first input row of the highest total of its identity
FirstSeenKept(canon, raw, cleaned, rid) ==
    \A r \in 1..Len(cleaned.rows) : \E x \in 1..Len(raw.rows) :
        /\ cleaned.rows[r] = FilledRow(raw.rows[x])
        /\ FirstOfHighest(canon, raw, rid, x)

\* A run that deduplicates by student_id and drops no column
DedupRun(canon, raw, cleaned) ==
    /\ \E c \in 1..Len(canon) : canon[c] = "student_id"
    /\ HasScoreColumn(canon)
    /\ PlainScores(canon, raw)
    /\ Len(cleaned.columns) = Len(canon)

\* C13: of the rows of one student_id that share the highest total,
\* clean_dataframe keeps the one that comes first in the input.
C13_FirstSeenTieBreak ==
    \A i \in Instances : \A n \in 1..clean_counter :
        (HasRun(i, n) /\ DedupRun(Canonical(RawSnapshot(i, n)).columns,
                                  RawSnapshot(i, n), CleanedSnapshot(i, n)))
        => FirstSeenKept(Canonical(RawSnapshot(i, n)).columns, RawSnapshot(i, n),
                         CleanedSnapshot(i, n),
                         FirstIndex(Canonical(RawSnapshot(i, n)).columns, "student_id"))

PairwiseDistinct(names) ==
    \A a, b \in 1..Len(names) : a # b => names[a] # names[b]

\* C14: the canonical names standardize_columns gives the headers of a table
\* are pairwise distinct.
C14_CanonicalNamesDistinct ==
    \A i \in Instances : \A n \in 1..clean_counter :
        HasRun(i, n) => PairwiseDistinct(Canonical(RawSnapshot(i, n)).columns)

\* The value of a cell on the scale of a declared maximum: 0 when the maximum
\* is not positive, a missing or unreadable cell read as 0
OfDeclared(c, mx) ==
    IF mx <= 0 \/ ~IsNum(c) THEN Num(0) ELSE RMul(RDiv(c, Num(mx)), Num(100))

\* Every column of the formatted frame that has a declared maximum holds the
\* cleaned values on the scale of that maximum
DeclaredRescaled(cleaned, formatted, mm) ==
    \A c \in 1..Len(formatted.columns) :
        formatted.columns[c] \in DOMAIN mm =>
            \A r \in 1..Len(formatted.rows) :
                formatted.rows[r][c]
                    = OfDeclared(cleaned.rows[r][c], mm[formatted.columns[c]])

\* C16: every column for which standardize_columns recorded a declared
\* maximum, a suffixed one such as score_2 included, is rescaled by that
\* maximum in the formatted snapshot of the same run.
C16_DeclaredMaximaApplied ==
    \A i \in Instances : \A n \in 1..clean_counter :
        HasRun(i, n) =>
            DeclaredRescaled(CleanedSnapshot(i, n), FormattedSnapshot(i, n),
                             Canonical(RawSnapshot(i, n)).max_map)

----------------------------------------------------------------------------
(* Claim C15: the scale of the student's values in analyse *)

\* The values of row r of the table in its question columns, each column
\* rescaled as the column the averages are taken from
RowOnTableScale(t, qidx, r) ==
    [j \in 1..Len(qidx) |-> ensure_numeric_0_100(Column(t, qidx[j]))[r]]

\* The Absolute (%) values are those of one of the student's rows in the
\* rescaled table
AbsoluteOnTableScale(t, result, srows, qidx) ==
    \E k \in 1..Len(srows) :
        [j \in 1..Len(result) |-> result[j].Absolute] = RowOnTableScale(t, qidx, srows[k])

\* C15: the Absolute (%) analyse reports for a question is the value the
\* student's retained row has in the rescaled column of the full table, the
\* column Average (%) is the mean of.
C15_StudentOnTableScale ==
    (last.op = "analyse" /\ last.raised = "none") =>
        AbsoluteOnTableScale(db[last.table], last.result,
            StudentRows(db[last.table], last.student_id,
                        detect_student_id_col(db[last.table].columns)),
            question_columns(db[last.table].columns))

====
